---- MODULE Spec2Model ----
(***************************************************************************)
(* PCR test fixture (Teensy 4.0 sketches of EthanWagner7/NWSCapstone25):   *)
(* the trigger sequencer, its guard flags, the timing plan and the PRI     *)
(* classifier.                                                             *)
(*                                                                         *)
(* Three revisions of the sketch are modelled side by side; the variable   *)
(* sketch says which one is running:                                       *)
(*   "v04"     src/unnamed/part_000 (v0.4, guarded startTest, Menu)        *)
(*   "bench20" src/pcr_test_fixture_uncommented.ino:377-604 (guarded       *)
(*             startTest, widths initialised to 20)                        *)
(*   "bench1"  src/unnamed/part_001 (unguarded startTest, widths 1)        *)
(*                                                                         *)
(* Two execution contexts: the main program (setup(), then loop() and the  *)
(* operations the front end invokes), whose position is pc, and the        *)
(* interrupt context (the RF_Start edge handler and the IntervalTimer      *)
(* callbacks), which preempts the main program between any two of its      *)
(* statements and whose handlers run to completion.                        *)
(*                                                                         *)
(* Times are fixed-point, in hundredths of a microsecond; PRF is in        *)
(* hundredths of a hertz.                                                  *)
(***************************************************************************)
EXTENDS Integers, Sequences, FiniteSets, TLC

VARIABLES
  sketch,                  \* which revision runs
  pc,                      \* position of the main program
  ret,                     \* where reset() returns to
  flag,                    \* charge_flag, discharge_flag, PCR_flag
  timer,                   \* charge_timer, discharge_timer, PCR_timer
  out,                     \* Charge_Trigger, Discharge_Trigger, PCR_Trigger pins
  attached,                \* RF_Start falling-edge interrupt attached to startTest
  menu,                    \* Menu::current
  trigger_time,            \* charge_/discharge_/PCR_trigger_time
  trigger_width,           \* charge_/discharge_/PCR_trigger_width
  discharge_trigger_delta,
  pulse_interval,
  pulse_mode,
  PRF,
  pri,                     \* PRI0, PRI1, PRI2 pins
  test_flag,               \* test_flag of the integer bench sketch
  h                        \* history: what ran last, and per-cycle observations

vars == <<sketch, pc, ret, flag, timer, out, attached, menu, trigger_time,
          trigger_width, discharge_trigger_delta, pulse_interval, pulse_mode,
          PRF, pri, test_flag, h>>

\* Saturation bound of the per-cycle callback counters kept in h.
MaxCount == 2

Sketches == {"v04", "bench20", "bench1"}
Guarded  == {"v04", "bench20"}
Channels == {"charge", "discharge", "pcr"}
Levels   == {"LOW", "HIGH"}
Screens  == <<"Options", "Start", "PRF", "PulseMode", "Test">>

NoTimer == [cb |-> "none", period |-> 0]

SetupPcs == {"s_reset", "s_attach", "s_cfg", "t_charge", "t_pcr", "t_delta",
             "t_discharge", "f_charge", "f_discharge", "f_pcr"}
ResetPcs == {"r_out_charge", "r_out_discharge", "r_out_pcr", "r_end_charge",
             "r_end_discharge", "r_end_pcr", "r_menu", "r_detach"}

AssertName(c) ==
  CASE c = "charge" -> "chargeTrigger"
    [] c = "discharge" -> "dischargeTrigger"
    [] c = "pcr" -> "PCRTrigger"

EndName(c) ==
  CASE c = "charge" -> "endChargePulse"
    [] c = "discharge" -> "endDischargePulse"
    [] c = "pcr" -> "endPCRPulse"

IsrEvents == {"startTest_admit", "startTest_drop"}
             \cup {AssertName(c) : c \in Channels}
             \cup {EndName(c) : c \in Channels}

Min(a, b) == IF a < b THEN a ELSE b

----------------------------------------------------------------------------
(* Library: IntervalTimer (Teensy core).  begin(f, period) returns false   *)
(* and leaves the timer as it was when the period is not positive;         *)
(* otherwise it (re)programs the timer, which then calls f every period    *)
(* until end() or another begin().  end() stops the timer.                 *)

TimerBegin(t, f, period) ==
  IF period <= 0 THEN t ELSE [cb |-> f, period |-> period]

TimerEnd_Keep(t) == t

TimerEnd(t) == NoTimer

----------------------------------------------------------------------------
(* Pure functions of the sketches.                                         *)

\* pulse_interval = ((1.0/PRF)*1e6), in hundredths of a microsecond from a
\* PRF in hundredths of a hertz: 10^10 \div prf, computed in two steps to
\* stay inside 32-bit integers.
IntervalOf(prf) ==
  LET q == 1000000000 \div prf
      r == 1000000000 % prf
  IN  q * 10 + (r * 10) \div prf

\* The eight conditions of outputPRIs' if / else-if chain, in source order.
BandCond(i, prf) ==
  CASE i = 1 -> prf <= 32709
    [] i = 2 -> 37209 < prf /\ prf <= 44652
    [] i = 3 -> 44652 < prf /\ prf <= 53604
    [] i = 4 -> 53604 < prf /\ prf <= 64329
    [] i = 5 -> 64329 < prf /\ prf <= 77190
    [] i = 6 -> 77190 < prf /\ prf <= 92635
    [] i = 7 -> 92635 < prf /\ prf <= 111172
    [] i = 8 -> 111172 < prf

\* outputPRIs(PRF): the pattern <<PRI0, PRI1, PRI2>> (1 = HIGH) after the
\* call, given the pattern before it.
outputPRIs_UpperOpen(prf, before) ==
  IF prf < 32709 THEN <<1, 1, 1>>
  ELSE IF 37209 <= prf /\ prf < 44652 THEN <<0, 1, 1>>
  ELSE IF 44652 <= prf /\ prf < 53604 THEN <<1, 0, 1>>
  ELSE IF 53604 <= prf /\ prf < 64329 THEN <<0, 0, 1>>
  ELSE IF 64329 <= prf /\ prf < 77190 THEN <<1, 1, 0>>
  ELSE IF 77190 <= prf /\ prf < 92635 THEN <<0, 1, 0>>
  ELSE IF 92635 <= prf /\ prf < 111172 THEN <<1, 0, 0>>
  ELSE IF 111172 <= prf THEN <<0, 0, 0>>
  ELSE before

outputPRIs_GapLow(prf, before) ==
  IF prf <= 32709 THEN <<1, 1, 1>>
  ELSE IF 37209 < prf /\ prf <= 44652 THEN <<0, 1, 1>>
  ELSE IF 44652 < prf /\ prf <= 53604 THEN <<1, 0, 1>>
  ELSE IF 53604 < prf /\ prf <= 64329 THEN <<0, 0, 1>>
  ELSE IF 64329 < prf /\ prf <= 77190 THEN <<1, 1, 0>>
  ELSE IF 77190 < prf /\ prf <= 92635 THEN <<0, 1, 0>>
  ELSE IF 92635 < prf /\ prf <= 111172 THEN <<1, 0, 0>>
  ELSE <<0, 0, 0>>

outputPRIs_LowPinsOnly(prf, before) ==
  LET keep(t) == [i \in 1..3 |-> IF t[i] = 0 THEN 0 ELSE before[i]]
  IN  IF prf <= 32709 THEN keep(<<1, 1, 1>>)
      ELSE IF 37209 < prf /\ prf <= 44652 THEN keep(<<0, 1, 1>>)
      ELSE IF 44652 < prf /\ prf <= 53604 THEN keep(<<1, 0, 1>>)
      ELSE IF 53604 < prf /\ prf <= 64329 THEN keep(<<0, 0, 1>>)
      ELSE IF 64329 < prf /\ prf <= 77190 THEN keep(<<1, 1, 0>>)
      ELSE IF 77190 < prf /\ prf <= 92635 THEN keep(<<0, 1, 0>>)
      ELSE IF 92635 < prf /\ prf <= 111172 THEN keep(<<1, 0, 0>>)
      ELSE IF 111172 < prf THEN keep(<<0, 0, 0>>)
      ELSE before

outputPRIs(prf, before) ==
  IF prf <= 32709 THEN <<1, 1, 1>>
  ELSE IF 37209 < prf /\ prf <= 44652 THEN <<0, 1, 1>>
  ELSE IF 44652 < prf /\ prf <= 53604 THEN <<1, 0, 1>>
  ELSE IF 53604 < prf /\ prf <= 64329 THEN <<0, 0, 1>>
  ELSE IF 64329 < prf /\ prf <= 77190 THEN <<1, 1, 0>>
  ELSE IF 77190 < prf /\ prf <= 92635 THEN <<0, 1, 0>>
  ELSE IF 92635 < prf /\ prf <= 111172 THEN <<1, 0, 0>>
  ELSE IF 111172 < prf THEN <<0, 0, 0>>
  ELSE before

\* The latency compensation added to every lead: 3.0 in v0.4 and in the
\* bench sketch with widths 20, absent from the integer bench sketch.
Latency(s) == IF s = "bench1" THEN 0 ELSE 300

\* Leads of triggerTimings (and of the same statements inlined in the bench
\* sketches' setup()), by pulse mode.  For any other mode neither branch is
\* taken and the variable keeps its value (see PlanModes); -1 marks that.
ChargeLead(s, mode) ==
  IF mode = 0 THEN 74000 + Latency(s)
  ELSE IF mode = 1 THEN 120000 + Latency(s)
  ELSE -1

\* a PCR lead longer than the charge lead
PCRLead_BeforeCharge(s, mode) ==
  IF mode = 0 THEN 84000 + Latency(s)
  ELSE IF mode = 1 THEN 130000 + Latency(s)
  ELSE -1

PCRLead(s, mode) ==
  IF mode = 0 THEN 10500 + Latency(s)
  ELSE IF mode = 1 THEN 20500 + Latency(s)
  ELSE -1

\* discharge_trigger_delta is a float in v0.4 (2.24 + 3.0, 4.48 + 3.0) and
\* an int in both bench sketches (truncated: 5 and 7 with the latency,
\* 2 and 4 without).
DeltaOf(s, mode) ==
  IF mode = 0
    THEN (IF s = "v04" THEN 524 ELSE IF s = "bench20" THEN 500 ELSE 200)
  ELSE IF mode = 1
    THEN (IF s = "v04" THEN 748 ELSE IF s = "bench20" THEN 700 ELSE 400)
  ELSE -1

\* The widths each sketch declares: never assigned in v0.4 (zero-initialised
\* globals), 20 and 1 microseconds in the bench sketches.
WidthOf(s) == IF s = "v04" THEN 0 ELSE IF s = "bench20" THEN 2000 ELSE 100

\* PRF and pulse mode that setup() hard-codes.
SetupPRF_TooHigh(s) == IF s = "bench1" THEN 50000 ELSE 140000

SetupPRF(s)  == IF s = "bench1" THEN 50000 ELSE 51724
SetupMode(s) == IF s = "bench1" THEN 1 ELSE 0
SetupInterval(s) == IF s = "bench1" THEN 200000 ELSE IntervalOf(SetupPRF(s))

----------------------------------------------------------------------------
(* Menu                                                                    *)

MenuEnterOf(m) ==
  CASE m = "Options" -> "Start"
    [] m = "Start" -> "PRF"
    [] m = "PRF" -> "PulseMode"
    [] m = "PulseMode" -> "Test"
    [] m = "Test" -> "Test"

MenuBackOf(m) ==
  CASE m = "Options" -> "Options"
    [] m = "Start" -> "Options"
    [] m = "PRF" -> "Start"
    [] m = "PulseMode" -> "PRF"
    [] m = "Test" -> "Test"

----------------------------------------------------------------------------
(* History bookkeeping (observations only; no handler reads h).            *)
(*   ev        the statement or handler that ran last                      *)
(*   clean     a reset() is in progress and no handler has run since it    *)
(*             was called                                                  *)
(*   quiet     reset() returned clean and no attachInterrupt ran since     *)
(*   busy      a channel was in flight when reset() was last called        *)
(*   fresh     a cycle was admitted and no deassert callback ran since     *)
(*   resetSeen reset() was called since the last admission                 *)
(*   asserts, deasserts   runs of each channel's assert and deassert       *)
(*             callback since the last admission, saturating at MaxCount   *)
(*   cycle     some cycle has been admitted                                *)
(*   arg       the last call of outputPRIs or triggerTimings: its          *)
(*             arguments prf and mode, the PRI pattern before it, and      *)
(*             whether it repeated the call before it (same function,      *)
(*             same arguments)                                             *)

ZeroCount == [c \in Channels |-> 0]

NoArg == [prf |-> 0, mode |-> 0, pri |-> <<0, 0, 0>>, again |-> FALSE]

\* a main-program statement ran
MainEv(name) == [h EXCEPT !.ev = name]

\* an interrupt-context handler ran; it spoils a reset() in progress
IsrEv(name) ==
  [h EXCEPT !.ev = name,
            !.clean = IF pc \in ResetPcs THEN FALSE ELSE @]

----------------------------------------------------------------------------
(* Initial state: program start.  Globals are zero-initialised, no timer   *)
(* runs, no interrupt is attached, Menu() starts at Start.  The level of   *)
(* the three trigger pins before the sketch first writes them is whatever  *)
(* the board powers up with.                                               *)

FirstPc(s) == IF s = "v04" THEN "s_cfg" ELSE "s_reset"

Init ==
  /\ sketch \in Sketches
  /\ pc = FirstPc(sketch)
  /\ ret = "s_attach"
  /\ flag = [c \in Channels |-> 0]
  /\ timer = [c \in Channels |-> NoTimer]
  /\ out \in [Channels -> Levels]
  /\ attached = FALSE
  /\ menu = "Start"
  /\ trigger_time = [c \in Channels |-> 0]
  /\ trigger_width = [c \in Channels |-> WidthOf(sketch)]
  /\ discharge_trigger_delta = 0
  /\ pulse_interval = 0
  /\ pulse_mode = 0
  /\ PRF = 0
  /\ pri = <<0, 0, 0>>
  /\ test_flag = 0
  /\ h = [ev |-> "init", clean |-> FALSE, quiet |-> FALSE, busy |-> FALSE,
          fresh |-> FALSE, resetSeen |-> FALSE,
          asserts |-> ZeroCount, deasserts |-> ZeroCount,
          cycle |-> FALSE, arg |-> NoArg]

----------------------------------------------------------------------------
(* setup(), statement by statement.  The three sketches run the same       *)
(* statements in different orders: v0.4 attaches the interrupt last, the   *)
(* bench sketches call reset() and attach the interrupt first.             *)

PlanModes == {0, 1}

AfterSetupPc_FlagsFirst(s, p) ==
  CASE p = "s_reset" -> "s_attach"
    [] p = "s_attach" ->
         (IF s = "v04" THEN "loop" ELSE IF s = "bench20" THEN "f_charge"
          ELSE "s_cfg")
    [] p = "s_cfg" -> "t_charge"
    [] p = "t_charge" -> "t_pcr"
    [] p = "t_pcr" -> "t_delta"
    [] p = "t_delta" -> "t_discharge"
    [] p = "t_discharge" -> (IF s = "v04" THEN "f_charge" ELSE "loop")
    [] p = "f_charge" -> "f_discharge"
    [] p = "f_discharge" -> "f_pcr"
    [] p = "f_pcr" -> (IF s = "v04" THEN "s_attach" ELSE "s_cfg")

AfterSetupPc(s, p) ==
  CASE p = "s_reset" -> "s_attach"
    [] p = "s_attach" -> (IF s = "v04" THEN "loop" ELSE "s_cfg")
    [] p = "s_cfg" -> "t_charge"
    [] p = "t_charge" -> "t_pcr"
    [] p = "t_pcr" -> "t_delta"
    [] p = "t_delta" -> "t_discharge"
    [] p = "t_discharge" -> (IF s = "bench1" THEN "loop" ELSE "f_charge")
    [] p = "f_charge" -> "f_discharge"
    [] p = "f_discharge" -> "f_pcr"
    [] p = "f_pcr" -> (IF s = "v04" THEN "s_attach" ELSE "loop")

\* PRF = ...; pulse_interval = ...; pulse_mode = ...; outputPRIs(PRF);
\* (test_flag = 1 in the integer bench sketch, which has no PRI output call)
SetupCfg ==
  /\ pc = "s_cfg"
  /\ PRF' = SetupPRF(sketch)
  /\ pulse_interval' = SetupInterval(sketch)
  /\ pulse_mode' = SetupMode(sketch)
  /\ pri' = IF sketch = "bench1" THEN pri ELSE outputPRIs(SetupPRF(sketch), pri)
  /\ test_flag' = IF sketch = "bench1" THEN 1 ELSE test_flag
  /\ pc' = AfterSetupPc(sketch, pc)
  /\ h' = MainEv("setup")
  /\ UNCHANGED <<sketch, ret, flag, timer, out, attached, menu, trigger_time,
                 trigger_width, discharge_trigger_delta>>

\* charge_trigger_time = pulse_interval - (lead + K);
SetChargeTime ==
  /\ pc = "t_charge"
  /\ trigger_time' =
       IF pulse_mode \in PlanModes
         THEN [trigger_time EXCEPT
                 !["charge"] = pulse_interval - ChargeLead(sketch, pulse_mode)]
         ELSE trigger_time
  /\ pc' = AfterSetupPc(sketch, pc)
  /\ h' = MainEv("setup")
  /\ UNCHANGED <<sketch, ret, flag, timer, out, attached, menu, trigger_width,
                 discharge_trigger_delta, pulse_interval, pulse_mode, PRF, pri,
                 test_flag>>

\* PCR_trigger_time = pulse_interval - (lead + K);
SetPCRTime ==
  /\ pc = "t_pcr"
  /\ trigger_time' =
       IF pulse_mode \in PlanModes
         THEN [trigger_time EXCEPT
                 !["pcr"] = pulse_interval - PCRLead(sketch, pulse_mode)]
         ELSE trigger_time
  /\ pc' = AfterSetupPc(sketch, pc)
  /\ h' = MainEv("setup")
  /\ UNCHANGED <<sketch, ret, flag, timer, out, attached, menu, trigger_width,
                 discharge_trigger_delta, pulse_interval, pulse_mode, PRF, pri,
                 test_flag>>

\* discharge_trigger_delta = (base + K);
SetDelta ==
  /\ pc = "t_delta"
  /\ discharge_trigger_delta' =
       IF pulse_mode \in PlanModes THEN DeltaOf(sketch, pulse_mode)
       ELSE discharge_trigger_delta
  /\ pc' = AfterSetupPc(sketch, pc)
  /\ h' = MainEv("setup")
  /\ UNCHANGED <<sketch, ret, flag, timer, out, attached, menu, trigger_time,
                 trigger_width, pulse_interval, pulse_mode, PRF, pri, test_flag>>

\* discharge_trigger_time = pulse_interval - discharge_trigger_delta;
SetDischargeTime ==
  /\ pc = "t_discharge"
  /\ trigger_time' = [trigger_time EXCEPT
                        !["discharge"] = pulse_interval - discharge_trigger_delta]
  /\ pc' = AfterSetupPc(sketch, pc)
  /\ h' = MainEv("setup")
  /\ UNCHANGED <<sketch, ret, flag, timer, out, attached, menu, trigger_width,
                 discharge_trigger_delta, pulse_interval, pulse_mode, PRF, pri,
                 test_flag>>

FlagPc(c) ==
  CASE c = "charge" -> "f_charge"
    [] c = "discharge" -> "f_discharge"
    [] c = "pcr" -> "f_pcr"

\* charge_flag = 1; discharge_flag = 1; PCR_flag = 1;  (one statement each)
SetupFlag(c) ==
  /\ pc = FlagPc(c)
  /\ flag' = [flag EXCEPT ![c] = 1]
  /\ pc' = AfterSetupPc(sketch, pc)
  /\ h' = MainEv("setup")
  /\ UNCHANGED <<sketch, ret, timer, out, attached, menu, trigger_time,
                 trigger_width, discharge_trigger_delta, pulse_interval,
                 pulse_mode, PRF, pri, test_flag>>

\* attachInterrupt(digitalPinToInterrupt(RF_Start), startTest, FALLING);
SetupAttach ==
  /\ pc = "s_attach"
  /\ attached' = TRUE
  /\ pc' = AfterSetupPc(sketch, pc)
  /\ h' = [h EXCEPT !.ev = "setup", !.quiet = FALSE]
  /\ UNCHANGED <<sketch, ret, flag, timer, out, menu, trigger_time,
                 trigger_width, discharge_trigger_delta, pulse_interval,
                 pulse_mode, PRF, pri, test_flag>>

----------------------------------------------------------------------------
(* reset(), statement by statement.  It runs in the main program with      *)
(* interrupts enabled, so edge and timer handlers can run between any two  *)
(* of its statements.  It writes no guard flag.                            *)

OutPc(c) ==
  CASE c = "charge" -> "r_out_charge"
    [] c = "discharge" -> "r_out_discharge"
    [] c = "pcr" -> "r_out_pcr"

EndPc(c) ==
  CASE c = "charge" -> "r_end_charge"
    [] c = "discharge" -> "r_end_discharge"
    [] c = "pcr" -> "r_end_pcr"

AfterResetPc(s, p) ==
  CASE p = "r_out_charge" -> "r_out_discharge"
    [] p = "r_out_discharge" -> "r_out_pcr"
    [] p = "r_out_pcr" -> "r_end_charge"
    [] p = "r_end_charge" -> "r_end_discharge"
    [] p = "r_end_discharge" -> "r_end_pcr"
    [] p = "r_end_pcr" -> (IF s = "v04" THEN "r_menu" ELSE "r_detach")
    [] p = "r_menu" -> "r_detach"

\* some channel has not retired: a timer is armed or a guard flag is 0
InFlight ==
  \E c \in Channels : timer[c].cb # "none" \/ (sketch \in Guarded /\ flag[c] = 0)

ResetEntry ==
  [h EXCEPT !.ev = "reset_call", !.clean = TRUE, !.quiet = FALSE,
            !.busy = InFlight, !.resetSeen = TRUE]

\* reset(); as the first statement of the bench sketches' setup()
SetupReset ==
  /\ pc = "s_reset"
  /\ pc' = "r_out_charge"
  /\ ret' = AfterSetupPc(sketch, pc)
  /\ h' = ResetEntry
  /\ UNCHANGED <<sketch, flag, timer, out, attached, menu, trigger_time,
                 trigger_width, discharge_trigger_delta, pulse_interval,
                 pulse_mode, PRF, pri, test_flag>>

\* reset() invoked by the front end (operator or fault path) while loop() runs
CallReset ==
  /\ pc = "loop"
  /\ pc' = "r_out_charge"
  /\ ret' = "loop"
  /\ h' = ResetEntry
  /\ UNCHANGED <<sketch, flag, timer, out, attached, menu, trigger_time,
                 trigger_width, discharge_trigger_delta, pulse_interval,
                 pulse_mode, PRF, pri, test_flag>>

\* digitalWriteFast(<channel pin>, HIGH);
ResetWrite(c) ==
  /\ pc = OutPc(c)
  /\ out' = [out EXCEPT ![c] = "HIGH"]
  /\ pc' = AfterResetPc(sketch, pc)
  /\ h' = MainEv("reset_step")
  /\ UNCHANGED <<sketch, ret, flag, timer, attached, menu, trigger_time,
                 trigger_width, discharge_trigger_delta, pulse_interval,
                 pulse_mode, PRF, pri, test_flag>>

\* <channel>_timer.end();
ResetEnd(c) ==
  /\ pc = EndPc(c)
  /\ timer' = [timer EXCEPT ![c] = TimerEnd(timer[c])]
  /\ pc' = AfterResetPc(sketch, pc)
  /\ h' = MainEv("reset_step")
  /\ UNCHANGED <<sketch, ret, flag, out, attached, menu, trigger_time,
                 trigger_width, discharge_trigger_delta, pulse_interval,
                 pulse_mode, PRF, pri, test_flag>>

\* menu.reset();  (v0.4 only)
ResetMenu ==
  /\ pc = "r_menu"
  /\ menu' = "Start"
  /\ pc' = AfterResetPc(sketch, pc)
  /\ h' = MainEv("reset_step")
  /\ UNCHANGED <<sketch, ret, flag, timer, out, attached, trigger_time,
                 trigger_width, discharge_trigger_delta, pulse_interval,
                 pulse_mode, PRF, pri, test_flag>>

\* detachInterrupt(digitalPinToInterrupt(RF_Start)); and return
ResetDetach ==
  /\ pc = "r_detach"
  /\ attached' = FALSE
  /\ pc' = ret
  /\ h' = [h EXCEPT !.ev = "reset_return", !.quiet = h.clean, !.clean = FALSE]
  /\ UNCHANGED <<sketch, ret, flag, timer, out, menu, trigger_time,
                 trigger_width, discharge_trigger_delta, pulse_interval,
                 pulse_mode, PRF, pri, test_flag>>

----------------------------------------------------------------------------
(* loop() of v0.4 and the Menu operations the front end invokes.           *)

\* menu.enter()
MenuEnter ==
  /\ pc = "loop" /\ sketch = "v04"
  /\ menu' = MenuEnterOf(menu)
  /\ h' = MainEv("menu_enter")
  /\ UNCHANGED <<sketch, pc, ret, flag, timer, out, attached, trigger_time,
                 trigger_width, discharge_trigger_delta, pulse_interval,
                 pulse_mode, PRF, pri, test_flag>>

\* menu.back()
MenuBack ==
  /\ pc = "loop" /\ sketch = "v04"
  /\ menu' = MenuBackOf(menu)
  /\ h' = MainEv("menu_back")
  /\ UNCHANGED <<sketch, pc, ret, flag, timer, out, attached, trigger_time,
                 trigger_width, discharge_trigger_delta, pulse_interval,
                 pulse_mode, PRF, pri, test_flag>>

\* if (menu.id() == Menu::ID::Test) attachInterrupt(..., startTest, FALLING);
LoopAttach ==
  /\ pc = "loop" /\ sketch = "v04"
  /\ menu = "Test"
  /\ attached' = TRUE
  /\ h' = [h EXCEPT !.ev = "loop_attach", !.quiet = FALSE]
  /\ UNCHANGED <<sketch, pc, ret, flag, timer, out, menu, trigger_time,
                 trigger_width, discharge_trigger_delta, pulse_interval,
                 pulse_mode, PRF, pri, test_flag>>

----------------------------------------------------------------------------
(* Interrupt context: the start-edge handler and the timer callbacks.      *)

\* if (charge_flag && discharge_flag && PCR_flag)
CanAdmit_NoPCR == flag["charge"] # 0 /\ flag["discharge"] # 0

CanAdmit_ChargeOnly == flag["charge"] # 0

CanAdmit_Any == flag["charge"] # 0 \/ flag["discharge"] # 0 \/ flag["pcr"] # 0

CanAdmit == flag["charge"] # 0 /\ flag["discharge"] # 0 /\ flag["pcr"] # 0

\* <channel>_timer.begin(<assert callback>, <channel>_trigger_time), all three
ArmAll ==
  [c \in Channels |-> TimerBegin(timer[c], AssertName(c), trigger_time[c])]

AdmitEv ==
  [h EXCEPT !.ev = "startTest_admit",
            !.clean = IF pc \in ResetPcs THEN FALSE ELSE @,
            !.fresh = TRUE, !.resetSeen = pc \in ResetPcs, !.cycle = TRUE,
            !.asserts = ZeroCount, !.deasserts = ZeroCount]

\* startTest() of the guarded sketches, on a falling edge of RF_Start
startTestGuarded ==
  /\ attached /\ sketch \in Guarded
  /\ IF CanAdmit
       THEN /\ flag' = [c \in Channels |-> 0]
            /\ timer' = ArmAll
            /\ h' = AdmitEv
       ELSE /\ UNCHANGED <<flag, timer>>
            /\ h' = IsrEv("startTest_drop")
  /\ UNCHANGED <<sketch, pc, ret, out, attached, menu, trigger_time,
                 trigger_width, discharge_trigger_delta, pulse_interval,
                 pulse_mode, PRF, pri, test_flag>>

\* startTest() of the integer bench sketch: no guard
startTestUnguarded ==
  /\ attached /\ sketch = "bench1"
  /\ test_flag' = 0
  /\ timer' = ArmAll
  /\ h' = AdmitEv
  /\ UNCHANGED <<sketch, pc, ret, flag, out, attached, menu, trigger_time,
                 trigger_width, discharge_trigger_delta, pulse_interval,
                 pulse_mode, PRF, pri>>

\* chargeTrigger / dischargeTrigger / PCRTrigger, called by the channel's timer
AssertTrigger_CopyPaste(c) ==
  /\ timer[c].cb = AssertName(c)
  /\ out' = [out EXCEPT !["charge"] = "LOW"]
  /\ timer' = [timer EXCEPT
                 ![c] = TimerBegin(timer[c], EndName(c), trigger_width[c])]
  /\ h' = [IsrEv(AssertName(c)) EXCEPT
             !.asserts[c] = Min(h.asserts[c] + 1, MaxCount)]
  /\ UNCHANGED <<sketch, pc, ret, flag, attached, menu, trigger_time,
                 trigger_width, discharge_trigger_delta, pulse_interval,
                 pulse_mode, PRF, pri, test_flag>>

AssertTrigger(c) ==
  /\ timer[c].cb = AssertName(c)
  /\ out' = [out EXCEPT ![c] = "LOW"]
  /\ timer' = [timer EXCEPT
                 ![c] = TimerBegin(timer[c], EndName(c), trigger_width[c])]
  /\ h' = [IsrEv(AssertName(c)) EXCEPT
             !.asserts[c] = Min(h.asserts[c] + 1, MaxCount)]
  /\ UNCHANGED <<sketch, pc, ret, flag, attached, menu, trigger_time,
                 trigger_width, discharge_trigger_delta, pulse_interval,
                 pulse_mode, PRF, pri, test_flag>>

\* <channel>_flag = 1;  (the guarded sketches; the integer bench sketch has
\* no flags)
RetireFlags_All(c) ==
  IF sketch \in Guarded THEN [x \in Channels |-> 1] ELSE flag

RetireFlags(c) ==
  IF sketch \in Guarded THEN [flag EXCEPT ![c] = 1] ELSE flag

\* endChargePulse / endDischargePulse / endPCRPulse, called by the channel's
\* timer
EndPulse(c) ==
  /\ timer[c].cb = EndName(c)
  /\ flag' = RetireFlags(c)
  /\ out' = [out EXCEPT ![c] = "HIGH"]
  /\ timer' = [timer EXCEPT ![c] = TimerEnd(timer[c])]
  /\ h' = [IsrEv(EndName(c)) EXCEPT
             !.fresh = FALSE,
             !.deasserts[c] = Min(h.deasserts[c] + 1, MaxCount)]
  /\ UNCHANGED <<sketch, pc, ret, attached, menu, trigger_time,
                 trigger_width, discharge_trigger_delta, pulse_interval,
                 pulse_mode, PRF, pri, test_flag>>

chargeTrigger     == AssertTrigger("charge")
dischargeTrigger  == AssertTrigger("discharge")
PCRTrigger        == AssertTrigger("pcr")
endChargePulse    == EndPulse("charge")
endDischargePulse == EndPulse("discharge")
endPCRPulse       == EndPulse("pcr")

TimerCallbacks ==
  \/ chargeTrigger \/ dischargeTrigger \/ PCRTrigger
  \/ endChargePulse \/ endDischargePulse \/ endPCRPulse

----------------------------------------------------------------------------
Setup ==
  \/ SetupCfg \/ SetChargeTime \/ SetPCRTime \/ SetDelta \/ SetDischargeTime
  \/ (\E c \in Channels : SetupFlag(c))
  \/ SetupAttach \/ SetupReset

Reset ==
  \/ CallReset
  \/ (\E c \in Channels : ResetWrite(c))
  \/ (\E c \in Channels : ResetEnd(c))
  \/ ResetMenu \/ ResetDetach

Next ==
  \/ Setup
  \/ Reset
  \/ MenuEnter \/ MenuBack \/ LoopAttach
  \/ startTestGuarded \/ startTestUnguarded
  \/ TimerCallbacks

Spec == Init /\ [][Next]_vars

\* Every armed timer eventually fires: the hardware timer calls its callback
\* each period for as long as it stays armed.
FairSpec ==
  /\ Spec
  /\ WF_vars(chargeTrigger) /\ WF_vars(dischargeTrigger) /\ WF_vars(PCRTrigger)
  /\ WF_vars(endChargePulse) /\ WF_vars(endDischargePulse)
  /\ WF_vars(endPCRPulse)

----------------------------------------------------------------------------
(* The rate classifier applied to test inputs.  setup() calls outputPRIs   *)
(* on the one PRF it hard-codes under "Trigger test inputs"; here the PRF  *)
(* argument is drawn from a set that holds every threshold of the          *)
(* if / else-if chain with its two neighbours (in hundredths of a hertz),  *)
(* values inside every band and inside the gap, and non-positive values,   *)
(* and the call is made from every pattern the three pins can show.        *)

Thresholds == {32709, 37209, 44652, 53604, 64329, 77190, 92635, 111172}

PRFInputs ==
  {t + d : t \in Thresholds, d \in {-1, 0, 1}}
    \cup {-100, 0, 1, 20000, 35000, 40000, 51724, 60000, 70000, 85000,
          100000, 120000}

Patterns == {<<a, b, c>> : a \in {0, 1}, b \in {0, 1}, c \in {0, 1}}

ClassifierInit ==
  /\ sketch = "v04"
  /\ pc = "classify"
  /\ ret = "classify"
  /\ flag = [c \in Channels |-> 0]
  /\ timer = [c \in Channels |-> NoTimer]
  /\ out = [c \in Channels |-> "HIGH"]
  /\ attached = FALSE
  /\ menu = "Start"
  /\ trigger_time = [c \in Channels |-> 0]
  /\ trigger_width = [c \in Channels |-> WidthOf(sketch)]
  /\ discharge_trigger_delta = 0
  /\ pulse_interval = 0
  /\ pulse_mode = 0
  /\ PRF = 0
  /\ pri \in Patterns
  /\ test_flag = 0
  /\ h = [ev |-> "init", clean |-> FALSE, quiet |-> FALSE, busy |-> FALSE,
          fresh |-> FALSE, resetSeen |-> FALSE,
          asserts |-> ZeroCount, deasserts |-> ZeroCount,
          cycle |-> FALSE, arg |-> NoArg]

\* outputPRIs(prf);
CallOutputPRIs ==
  /\ pc = "classify"
  /\ \E prf \in PRFInputs :
       /\ pri' = outputPRIs(prf, pri)
       /\ h' = [h EXCEPT
                  !.ev = "outputPRIs",
                  !.arg = [prf |-> prf, mode |-> 0, pri |-> pri,
                           again |-> (h.ev = "outputPRIs" /\ h.arg.prf = prf)]]
  /\ UNCHANGED <<sketch, pc, ret, flag, timer, out, attached, menu,
                 trigger_time, trigger_width, discharge_trigger_delta,
                 pulse_interval, pulse_mode, PRF, test_flag>>

ClassifierNext == CallOutputPRIs

ClassifierSpec == ClassifierInit /\ [][ClassifierNext]_vars

----------------------------------------------------------------------------
(* The timing planner applied to test inputs.  setup() of v0.4 sets PRF,   *)
(* pulse_interval and pulse_mode to the values it hard-codes under         *)
(* "Trigger test inputs" and then calls triggerTimings(PRF, pulse_mode);   *)
(* here the inputs are drawn from sets.                                    *)

\* triggerTimings(PRF, pulse_mode) of v0.4, the whole function: the plan
\* variables after the call.  The function reads the global pulse_interval;
\* its parameter PRF is not used in its body.  A pulse_mode other than 0 and
\* 1 takes neither branch, and the last statement still runs.
triggerTimings(prf, mode, interval, times, delta) ==
  LET d == IF mode \in PlanModes THEN DeltaOf("v04", mode) ELSE delta
      t == IF mode \in PlanModes
             THEN [times EXCEPT
                     !["charge"] = interval - ChargeLead("v04", mode),
                     !["pcr"] = interval - PCRLead("v04", mode)]
             ELSE times
  IN  [time |-> [t EXCEPT !["discharge"] = interval - d], delta |-> d]

\* PRF values (hundredths of a hertz) whose intervals are: far above every
\* lead (200.00, 517.24), just above and exactly the largest Long lead plus
\* latency (831.24, 831.25), between the Long and the Short lead (1000.00),
\* just above and exactly the largest Short lead plus latency (1345.87,
\* 1345.89), and below it (1400.00).
PlanPRFs == {20000, 51724, 83124, 83125, 100000, 134587, 134589, 140000}

\* pulse_mode is an int: 0 Short, 1 Long, and a value that is neither.
ModeInputs == {0, 1, 2}

PlannerInit ==
  /\ sketch = "v04"
  /\ pc = "plan"
  /\ ret = "plan"
  /\ flag = [c \in Channels |-> 0]
  /\ timer = [c \in Channels |-> NoTimer]
  /\ out = [c \in Channels |-> "HIGH"]
  /\ attached = FALSE
  /\ menu = "Start"
  /\ trigger_time = [c \in Channels |-> 0]
  /\ trigger_width = [c \in Channels |-> WidthOf(sketch)]
  /\ discharge_trigger_delta = 0
  /\ pulse_interval = 0
  /\ pulse_mode = 0
  /\ PRF = 0
  /\ pri = <<0, 0, 0>>
  /\ test_flag = 0
  /\ h = [ev |-> "init", clean |-> FALSE, quiet |-> FALSE, busy |-> FALSE,
          fresh |-> FALSE, resetSeen |-> FALSE,
          asserts |-> ZeroCount, deasserts |-> ZeroCount,
          cycle |-> FALSE, arg |-> NoArg]

\* PRF = ...; pulse_interval = ((1.0/PRF)*1e6); pulse_mode = ...;
SetTestInputs ==
  /\ pc = "plan"
  /\ \E prf \in PlanPRFs, mode \in ModeInputs :
       /\ PRF' = prf
       /\ pulse_interval' = IntervalOf(prf)
       /\ pulse_mode' = mode
  /\ h' = MainEv("inputs")
  /\ UNCHANGED <<sketch, pc, ret, flag, timer, out, attached, menu,
                 trigger_time, trigger_width, discharge_trigger_delta, pri,
                 test_flag>>

\* triggerTimings(prf, mode); called once the test inputs are set, with the
\* current PRF and pulse_mode or with new ones
CallTriggerTimings ==
  /\ pc = "plan"
  /\ PRF # 0
  /\ \E prf \in PlanPRFs, mode \in ModeInputs :
       LET r == triggerTimings(prf, mode, pulse_interval, trigger_time,
                               discharge_trigger_delta)
       IN  /\ trigger_time' = r.time
           /\ discharge_trigger_delta' = r.delta
           /\ h' = [h EXCEPT
                      !.ev = "triggerTimings",
                      !.arg = [prf |-> prf, mode |-> mode, pri |-> pri,
                               again |-> FALSE]]
  /\ UNCHANGED <<sketch, pc, ret, flag, timer, out, attached, menu,
                 trigger_width, pulse_interval, pulse_mode, PRF, pri,
                 test_flag>>

PlannerNext == SetTestInputs \/ CallTriggerTimings

PlannerSpec == PlannerInit /\ [][PlannerNext]_vars

----------------------------------------------------------------------------
(* Applying a configuration: the statements of setup() under "Trigger test *)
(* inputs" (set PRF, pulse_interval and pulse_mode, call outputPRIs, call  *)
(* triggerTimings), one statement at a time, applied to drawn (PRF, mode)  *)
(* pairs and again each time the pair changes.  h.old keeps the pattern    *)
(* and the plan that were in force when the new pair was submitted.        *)

\* ((1.0/PRF)*1e6) for a PRF of either sign (PRF # 0)
SignedIntervalOf(prf) ==
  IF prf < 0 THEN 0 - IntervalOf(0 - prf) ELSE IntervalOf(prf)

\* PRF values: negative (-1.00), first band (200.00), the classifier gap
\* (350.00), setup()'s 517.24, one whose interval is below the Long lead
\* (1000.00) and one whose interval is below every lead (1400.00).
ConfigPRFs == {-100, 20000, 35000, 51724, 100000, 140000}

ConfigInit ==
  /\ sketch = "v04"
  /\ pc = "c_inputs"
  /\ ret = "c_inputs"
  /\ flag \in {[c \in Channels |-> 0], [c \in Channels |-> 1]}
  /\ timer = [c \in Channels |-> NoTimer]
  /\ out = [c \in Channels |-> "HIGH"]
  /\ attached = FALSE
  /\ menu = "Start"
  /\ trigger_time = [c \in Channels |-> 0]
  /\ trigger_width = [c \in Channels |-> WidthOf(sketch)]
  /\ discharge_trigger_delta = 0
  /\ pulse_interval = 0
  /\ pulse_mode = 0
  /\ PRF = 0
  /\ pri = <<0, 0, 0>>
  /\ test_flag = 0
  /\ h = [ev |-> "init", clean |-> FALSE, quiet |-> FALSE, busy |-> FALSE,
          fresh |-> FALSE, resetSeen |-> FALSE,
          asserts |-> ZeroCount, deasserts |-> ZeroCount,
          cycle |-> FALSE, arg |-> NoArg,
          old |-> [pri |-> <<0, 0, 0>>, time |-> [c \in Channels |-> 0],
                   delta |-> 0]]

\* PRF = ...; pulse_interval = ((1.0/PRF)*1e6); pulse_mode = ...;
CfgSetInputs ==
  /\ pc = "c_inputs"
  /\ \E prf \in ConfigPRFs, mode \in ModeInputs :
       /\ PRF' = prf
       /\ pulse_interval' = SignedIntervalOf(prf)
       /\ pulse_mode' = mode
       /\ h' = [h EXCEPT
                  !.ev = "inputs",
                  !.arg = [prf |-> prf, mode |-> mode, pri |-> pri,
                           again |-> FALSE],
                  !.old = [pri |-> pri, time |-> trigger_time,
                           delta |-> discharge_trigger_delta]]
  /\ pc' = "c_pri"
  /\ UNCHANGED <<sketch, ret, flag, timer, out, attached, menu,
                 trigger_time, trigger_width, discharge_trigger_delta, pri,
                 test_flag>>

\* outputPRIs(PRF);
CfgOutputPRIs ==
  /\ pc = "c_pri"
  /\ pri' = outputPRIs(PRF, pri)
  /\ h' = MainEv("outputPRIs")
  /\ pc' = "c_plan"
  /\ UNCHANGED <<sketch, ret, flag, timer, out, attached, menu,
                 trigger_time, trigger_width, discharge_trigger_delta,
                 pulse_interval, pulse_mode, PRF, test_flag>>

\* triggerTimings(PRF, pulse_mode);
CfgTriggerTimings_SetsWidths ==
  /\ pc = "c_plan"
  /\ LET r == triggerTimings(PRF, pulse_mode, pulse_interval, trigger_time,
                             discharge_trigger_delta)
     IN  /\ trigger_time' = r.time
         /\ discharge_trigger_delta' = r.delta
  /\ trigger_width' = [c \in Channels |-> pulse_interval \div 100]
  /\ h' = MainEv("triggerTimings")
  /\ pc' = "c_inputs"
  /\ UNCHANGED <<sketch, ret, flag, timer, out, attached, menu,
                 pulse_interval, pulse_mode, PRF, pri, test_flag>>

CfgTriggerTimings ==
  /\ pc = "c_plan"
  /\ LET r == triggerTimings(PRF, pulse_mode, pulse_interval, trigger_time,
                             discharge_trigger_delta)
     IN  /\ trigger_time' = r.time
         /\ discharge_trigger_delta' = r.delta
  /\ h' = MainEv("triggerTimings")
  /\ pc' = "c_inputs"
  /\ UNCHANGED <<sketch, ret, flag, timer, out, attached, menu,
                 trigger_width, pulse_interval, pulse_mode, PRF, pri,
                 test_flag>>

ConfigNext == CfgSetInputs \/ CfgOutputPRIs \/ CfgTriggerTimings

ConfigSpec == ConfigInit /\ [][ConfigNext]_vars

----------------------------------------------------------------------------
(* timeDifference() on 32-bit unsigned long values.  A value is held as   *)
(* its two 16-bit halves so that the arithmetic wraps at 2^32 exactly as  *)
(* unsigned long arithmetic does.                                         *)

Word == 65536

U32(n) == [hi |-> n \div Word, lo |-> n % Word]

Add32(a, b) ==
  LET lo == a.lo + b.lo
      hi == a.hi + b.hi + (lo \div Word)
  IN  [hi |-> hi % Word, lo |-> lo % Word]

Sub32(a, b) ==
  LET borrow == IF a.lo < b.lo THEN 1 ELSE 0
      lo == (a.lo - b.lo) + Word
      hi == ((a.hi - b.hi) - borrow) + Word
  IN  [hi |-> hi % Word, lo |-> lo % Word]

Gt32(a, b) == a.hi > b.hi \/ (a.hi = b.hi /\ a.lo > b.lo)

\* the C operator ^ on non-negative ints: bitwise exclusive or
RECURSIVE BitXor(_, _)
BitXor(a, b) ==
  IF a = 0 /\ b = 0 THEN 0
  ELSE (((a % 2) + (b % 2)) % 2) + (2 * BitXor(a \div 2, b \div 2))

\* unsigned long timeDifference(time1, time2):
\*   if (time1 > time2) time_difference = (((2^32) - 1) - time1) + time2;
\*   else               time_difference = time2 - time1;
timeDifference(time1, time2) ==
  IF Gt32(time1, time2)
    THEN Add32(Sub32(U32(BitXor(2, 32) - 1), time1), time2)
    ELSE Sub32(time2, time1)

\* micros() readings: around zero, around the literal's value, mid-range
\* and just below the rollover at 2^32.
TimeInputs ==
  { U32(0), U32(1), U32(33), U32(34), U32(1000), U32(65535), U32(65536),
    [hi |-> 32768, lo |-> 0], [hi |-> 65535, lo |-> 64536],
    [hi |-> 65535, lo |-> 65502], [hi |-> 65535, lo |-> 65534],
    [hi |-> 65535, lo |-> 65535] }

TimeInit ==
  /\ sketch = "v04"
  /\ pc = "time"
  /\ ret = "time"
  /\ flag = [c \in Channels |-> 0]
  /\ timer = [c \in Channels |-> NoTimer]
  /\ out = [c \in Channels |-> "HIGH"]
  /\ attached = FALSE
  /\ menu = "Start"
  /\ trigger_time = [c \in Channels |-> 0]
  /\ trigger_width = [c \in Channels |-> WidthOf(sketch)]
  /\ discharge_trigger_delta = 0
  /\ pulse_interval = 0
  /\ pulse_mode = 0
  /\ PRF = 0
  /\ pri = <<0, 0, 0>>
  /\ test_flag = 0
  /\ h = [ev |-> "init", time1 |-> U32(0), time2 |-> U32(0),
          time_difference |-> U32(0)]

\* time_difference = timeDifference(time1, time2);
CallTimeDifference ==
  /\ pc = "time"
  /\ \E time1 \in TimeInputs, time2 \in TimeInputs :
       h' = [ev |-> "timeDifference", time1 |-> time1, time2 |-> time2,
             time_difference |-> timeDifference(time1, time2)]
  /\ UNCHANGED <<sketch, pc, ret, flag, timer, out, attached, menu,
                 trigger_time, trigger_width, discharge_trigger_delta,
                 pulse_interval, pulse_mode, PRF, pri, test_flag>>

TimeNext == CallTimeDifference

TimeSpec == TimeInit /\ [][TimeNext]_vars

----------------------------------------------------------------------------
(* The interrupt and timer callbacks of the guarded sketches, statement by *)
(* statement.  pc is [fn, at]: the callback that is running ("none"        *)
(* between callbacks) and the index of its next statement; h counts the    *)
(* statements the running callback has executed.  The RF_Start interrupt   *)
(* and the interval timers have the same priority, so a callback runs to   *)
(* its return before the next one is entered.                              *)

MaxSteps == 9

Handlers == {"startTest"} \cup {AssertName(c) : c \in Channels}
            \cup {EndName(c) : c \in Channels}

Stmt(op, c) == [op |-> op, ch |-> c]

AllowedOps == {"if_flags", "flag_write", "flag_set", "pin_low", "pin_high",
               "begin_assert", "begin_end", "timer_end"}

\* the statements of each callback, in source order
Body(fn) ==
  IF fn = "startTest"
    THEN << Stmt("if_flags", "charge"),
            Stmt("flag_write", "charge"), Stmt("flag_write", "discharge"),
            Stmt("flag_write", "pcr"),
            Stmt("begin_assert", "charge"), Stmt("begin_assert", "discharge"),
            Stmt("begin_assert", "pcr") >>
  ELSE IF \E c \in Channels : fn = AssertName(c)
    THEN LET c == CHOOSE x \in Channels : fn = AssertName(x)
         IN  << Stmt("pin_low", c), Stmt("begin_end", c) >>
  ELSE LET c == CHOOSE x \in Channels : fn = EndName(x)
       IN  << Stmt("flag_set", c), Stmt("pin_high", c),
              Stmt("timer_end", c) >>

\* a variant of startTest that waits for the flags instead of returning
NextAt_SpinOnFlags(fn, at) ==
  IF Body(fn)[at].op = "if_flags" /\ ~CanAdmit THEN at ELSE at + 1

\* where control goes after statement <at> of <fn>: the if of startTest
\* skips its block when a flag is 0, every other statement falls through
NextAt(fn, at) ==
  IF Body(fn)[at].op = "if_flags" /\ ~CanAdmit
    THEN Len(Body(fn)) + 1
    ELSE at + 1

\* the hardware calls a callback: a falling edge while attached, or the
\* channel's timer with that callback installed
Callable(fn) ==
  \/ fn = "startTest" /\ attached
  \/ \E c \in Channels : timer[c].cb = fn

HandlerInit ==
  /\ sketch \in Guarded
  /\ pc = [fn |-> "none", at |-> 0]
  /\ ret = "loop"
  /\ flag = [c \in Channels |-> 1]
  /\ timer = [c \in Channels |-> NoTimer]
  /\ out \in (IF sketch = "v04" THEN [Channels -> Levels]
                ELSE {[c \in Channels |-> "HIGH"]})
  /\ attached = TRUE
  /\ menu = "Start"
  /\ pulse_interval = SetupInterval(sketch)
  /\ pulse_mode = SetupMode(sketch)
  /\ PRF = SetupPRF(sketch)
  /\ discharge_trigger_delta = DeltaOf(sketch, pulse_mode)
  /\ trigger_time =
       [c \in Channels |->
          CASE c = "charge" -> pulse_interval - ChargeLead(sketch, pulse_mode)
            [] c = "pcr" -> pulse_interval - PCRLead(sketch, pulse_mode)
            [] c = "discharge" -> pulse_interval - DeltaOf(sketch, pulse_mode)]
  /\ trigger_width = [c \in Channels |-> WidthOf(sketch)]
  /\ pri = outputPRIs(PRF, <<0, 0, 0>>)
  /\ test_flag = 0
  /\ h = [ev |-> "init", steps |-> 0]

HandlerEnter ==
  /\ pc.fn = "none"
  /\ \E fn \in Handlers :
       /\ Callable(fn)
       /\ pc' = [fn |-> fn, at |-> 1]
  /\ h' = [ev |-> "enter", steps |-> 0]
  /\ UNCHANGED <<sketch, ret, flag, timer, out, attached, menu, trigger_time,
                 trigger_width, discharge_trigger_delta, pulse_interval,
                 pulse_mode, PRF, pri, test_flag>>

HandlerStep ==
  /\ pc.fn # "none" /\ pc.at <= Len(Body(pc.fn))
  /\ LET st == Body(pc.fn)[pc.at]
         c == st.ch
     IN  /\ flag' = CASE st.op = "flag_write" -> [flag EXCEPT ![c] = 0]
                      [] st.op = "flag_set" -> [flag EXCEPT ![c] = 1]
                      [] OTHER -> flag
         /\ out' = CASE st.op = "pin_low" -> [out EXCEPT ![c] = "LOW"]
                     [] st.op = "pin_high" -> [out EXCEPT ![c] = "HIGH"]
                     [] OTHER -> out
         /\ timer' =
              CASE st.op = "begin_assert" ->
                     [timer EXCEPT ![c] = TimerBegin(timer[c], AssertName(c),
                                                     trigger_time[c])]
                [] st.op = "begin_end" ->
                     [timer EXCEPT ![c] = TimerBegin(timer[c], EndName(c),
                                                     trigger_width[c])]
                [] st.op = "timer_end" ->
                     [timer EXCEPT ![c] = TimerEnd(timer[c])]
                [] OTHER -> timer
  /\ pc' = [pc EXCEPT !.at = NextAt(pc.fn, pc.at)]
  /\ h' = [ev |-> "step", steps |-> Min(h.steps + 1, MaxSteps)]
  /\ UNCHANGED <<sketch, ret, attached, menu, trigger_time, trigger_width,
                 discharge_trigger_delta, pulse_interval, pulse_mode, PRF,
                 pri, test_flag>>

HandlerReturn ==
  /\ pc.fn # "none" /\ pc.at > Len(Body(pc.fn))
  /\ pc' = [fn |-> "none", at |-> 0]
  /\ h' = [ev |-> "return", steps |-> h.steps]
  /\ UNCHANGED <<sketch, ret, flag, timer, out, attached, menu, trigger_time,
                 trigger_width, discharge_trigger_delta, pulse_interval,
                 pulse_mode, PRF, pri, test_flag>>

HandlerNext == HandlerEnter \/ HandlerStep \/ HandlerReturn

HandlerSpec == HandlerInit /\ [][HandlerNext]_vars

\* a callback that has been entered keeps running until it returns
FairHandlerSpec ==
  HandlerSpec /\ WF_vars(HandlerStep) /\ WF_vars(HandlerReturn)

----------------------------------------------------------------------------
(* One cycle with timers that fire at their programmed delays.  In this    *)
(* specification h holds the hardware time base: now is the time of the    *)
(* last event, counted from the admitted edge, and due[c] the time at      *)
(* which channel c's timer fires next (an IntervalTimer is periodic: it    *)
(* fires every period until begin() or end() changes it).  The timer that  *)
(* is due first fires first.  order lists the channels in the order of     *)
(* their first assert in the cycle.                                        *)

MaxFirings == 6

\* the plan for interval and mode as the sketch's statements compute it
PlanOf(s, mode, interval) ==
  [c \in Channels |->
     CASE c = "charge" -> interval - ChargeLead(s, mode)
       [] c = "pcr" -> interval - PCRLead(s, mode)
       [] c = "discharge" -> interval - DeltaOf(s, mode)]

OrderInit ==
  /\ sketch \in Guarded
  /\ pc = "loop"
  /\ ret = "loop"
  /\ PRF \in (IF sketch = "v04" THEN PlanPRFs ELSE {SetupPRF(sketch)})
  /\ pulse_mode \in (IF sketch = "v04" THEN PlanModes
                       ELSE {SetupMode(sketch)})
  /\ pulse_interval = IntervalOf(PRF)
  /\ trigger_time = PlanOf(sketch, pulse_mode, pulse_interval)
  /\ discharge_trigger_delta = DeltaOf(sketch, pulse_mode)
  /\ trigger_width = [c \in Channels |-> WidthOf(sketch)]
  /\ flag = [c \in Channels |-> 1]
  /\ timer = [c \in Channels |-> NoTimer]
  /\ out = [c \in Channels |-> "HIGH"]
  /\ attached = TRUE
  /\ menu = "Start"
  /\ pri = outputPRIs(PRF, <<0, 0, 0>>)
  /\ test_flag = 0
  /\ h = [ev |-> "init", now |-> 0, due |-> [c \in Channels |-> 0],
          order |-> <<>>, fired |-> 0]

\* channel c's timer is armed and no armed timer is due before it
DueFirst(c) ==
  /\ timer[c] # NoTimer
  /\ \A d \in Channels : timer[d] # NoTimer => h.due[c] <= h.due[d]

\* startTest() on a falling edge of RF_Start.  An edge is admitted only with
\* every flag 1, when no timer is armed, so time is counted from that edge.
TimedStartTest ==
  /\ attached
  /\ IF CanAdmit
       THEN /\ flag' = [c \in Channels |-> 0]
            /\ timer' = ArmAll
            /\ h' = [ev |-> "startTest_admit", now |-> 0,
                     due |-> [c \in Channels |->
                                IF trigger_time[c] > 0
                                  THEN trigger_time[c] ELSE 0],
                     order |-> <<>>, fired |-> 0]
       ELSE /\ h' = [h EXCEPT !.ev = "startTest_drop"]
            /\ UNCHANGED <<flag, timer>>
  /\ UNCHANGED <<sketch, pc, ret, out, attached, menu, trigger_time,
                 trigger_width, discharge_trigger_delta, pulse_interval,
                 pulse_mode, PRF, pri, test_flag>>

\* chargeTrigger / dischargeTrigger / PCRTrigger at the timer's due time
TimedAssert(c) ==
  /\ timer[c].cb = AssertName(c)
  /\ DueFirst(c)
  /\ h.fired < MaxFirings
  /\ out' = [out EXCEPT ![c] = "LOW"]
  /\ timer' = [timer EXCEPT
                 ![c] = TimerBegin(timer[c], EndName(c), trigger_width[c])]
  /\ h' = [ev |-> AssertName(c), now |-> h.due[c],
           due |-> [h.due EXCEPT ![c] = h.due[c] + timer'[c].period],
           order |-> IF \E i \in 1..Len(h.order) : h.order[i] = c
                       THEN h.order ELSE Append(h.order, c),
           fired |-> h.fired + 1]
  /\ UNCHANGED <<sketch, pc, ret, flag, attached, menu, trigger_time,
                 trigger_width, discharge_trigger_delta, pulse_interval,
                 pulse_mode, PRF, pri, test_flag>>

\* endChargePulse / endDischargePulse / endPCRPulse at the timer's due time
TimedEnd(c) ==
  /\ timer[c].cb = EndName(c)
  /\ DueFirst(c)
  /\ h.fired < MaxFirings
  /\ flag' = [flag EXCEPT ![c] = 1]
  /\ out' = [out EXCEPT ![c] = "HIGH"]
  /\ timer' = [timer EXCEPT ![c] = TimerEnd(timer[c])]
  /\ h' = [h EXCEPT !.ev = EndName(c), !.now = h.due[c],
                    !.fired = h.fired + 1]
  /\ UNCHANGED <<sketch, pc, ret, attached, menu, trigger_time,
                 trigger_width, discharge_trigger_delta, pulse_interval,
                 pulse_mode, PRF, pri, test_flag>>

OrderNext ==
  \/ TimedStartTest
  \/ \E c \in Channels : TimedAssert(c)
  \/ \E c \in Channels : TimedEnd(c)

OrderSpec == OrderInit /\ [][OrderNext]_vars

----------------------------------------------------------------------------
(* Derived notions used by the properties.                                 *)

\* channel state of the sequencer, read off the channel's timer
St(c) ==
  IF timer[c].cb = "none" THEN "Idle"
  ELSE IF timer[c].cb = AssertName(c) THEN "Armed"
  ELSE "Asserted"

AllFlagsOne == \A c \in Channels : flag[c] = 1

AllIdle ==
  \A c \in Channels : out[c] = "HIGH" /\ timer[c] = NoTimer /\ flag[c] = 1

StartEvents == {"startTest_admit", "startTest_drop"}

----------------------------------------------------------------------------
\* C1: in the guarded sketches a step arms an assert timer (or runs the body
\* of startTest) only from a state in which charge_flag, discharge_flag and
\* PCR_flag are all 1, and that same step clears all three flags and arms all
\* three timers with their assert callback and offset.
C1_AdmitOnlyWhenAllFlagsSet ==
  [][ ( /\ sketch \in Guarded
        /\ \/ h'.ev = "startTest_admit"
           \/ \E c \in Channels :
                timer'[c].cb = AssertName(c) /\ timer[c].cb # AssertName(c) )
      => /\ AllFlagsOne
         /\ \A c \in Channels :
              /\ flag'[c] = 0
              /\ timer'[c] = [cb |-> AssertName(c), period |-> trigger_time[c]]
    ]_vars

\* a cycle has just been admitted: flags cleared, all three assert timers armed
C1_Witness ==
  /\ sketch \in Guarded
  /\ h.ev = "startTest_admit"
  /\ \A c \in Channels :
       flag[c] = 0 /\ timer[c].cb = AssertName(c) /\ out[c] = "HIGH"

\* C2: in the guarded sketches a startTest run that finds some flag 0 leaves
\* the three flags, the three timers and the three outputs unchanged, and no
\* assert timer is ever armed except by a startTest run that admits.
C2_DroppedEdgeChangesNothing ==
  /\ [][ ( /\ sketch \in Guarded
           /\ h'.ev \in StartEvents
           /\ ~AllFlagsOne )
         => UNCHANGED <<flag, timer, out>> ]_vars
  /\ [][ ( /\ sketch \in Guarded
           /\ \E c \in Channels :
                timer'[c].cb = AssertName(c) /\ timer[c].cb # AssertName(c) )
         => h'.ev = "startTest_admit" /\ AllFlagsOne ]_vars

\* an edge was dropped while the charge pulse was active and the PCR channel
\* still armed
C2_Witness ==
  /\ sketch \in Guarded
  /\ h.ev = "startTest_drop"
  /\ St("charge") = "Asserted" /\ out["charge"] = "LOW"
  /\ St("pcr") = "Armed"
  /\ flag["discharge"] = 1

\* C3: a guard flag goes to 0 only in an admitting startTest run, and goes to
\* 1 only in setup()'s own assignment of that flag or in that channel's
\* deassert callback; no other statement or handler changes any flag.
C3_FlagWriters ==
  [][ \A c \in Channels :
        flag'[c] # flag[c] =>
          IF flag'[c] = 0
            THEN h'.ev = "startTest_admit"
            ELSE \/ h'.ev = EndName(c)
                 \/ (h'.ev = "setup" /\ pc = FlagPc(c))
    ]_vars

\* endChargePulse has just set charge_flag while the other two channels are
\* still in flight with their flags 0
C3_Witness ==
  /\ h.ev = "endChargePulse"
  /\ flag["charge"] = 1
  /\ flag["discharge"] = 0 /\ flag["pcr"] = 0
  /\ St("discharge") # "Idle" /\ St("pcr") # "Idle"

\* C4: in every revision, once setup() is over, a startTest run leaves every
\* pending channel timer
\* (armed with its assert or its deassert callback) exactly as it was: it
\* neither re-arms nor cancels it, so an active pulse is ended by the width
\* timer its own assert callback armed.
C4_NoOverlapEveryRevision ==
  [][ (h'.ev \in StartEvents /\ pc = "loop")
      => \A c \in Channels : timer[c].cb # "none" => timer'[c] = timer[c]
    ]_vars

\* C5: in the guarded sketches, after a cycle is admitted no further cycle is
\* admitted before some deassert callback has run (the second of two edges in
\* rapid succession is dropped); and, every armed timer eventually firing,
\* an admitted cycle leads to all outputs HIGH, no timer armed and all three
\* flags 1, unless reset() is called meanwhile.
C5_OneAdmissionThenIdle ==
  /\ [][ (sketch \in Guarded /\ h.fresh) => h'.ev # "startTest_admit" ]_vars
  /\ ( (sketch \in Guarded /\ h.ev = "startTest_admit")
         ~> (AllIdle \/ h.resetSeen) )

\* C6: in the guarded sketches, when reset() called during operation (and
\* run with no handler interleaved) returns, all three guard flags are 1.
C6_ResetSetsFlags ==
  (sketch \in Guarded /\ h.ev = "reset_return" /\ pc = "loop" /\ h.quiet)
    => AllFlagsOne

\* C7: when reset() has run with no handler interleaved, then from its return
\* until the next attachInterrupt all three outputs are HIGH, no channel
\* timer is armed, the start-edge interrupt is detached and no handler of
\* the sequencer runs.
C7_CleanResetQuiesces ==
  h.quiet =>
    /\ \A c \in Channels : out[c] = "HIGH" /\ timer[c] = NoTimer
    /\ ~attached
    /\ h.ev \notin IsrEvents

\* reset() was called with a channel in flight and has returned clean, and
\* the main program has moved on since
C7_Witness ==
  /\ h.quiet /\ h.busy
  /\ pc = "loop"
  /\ h.ev = "menu_enter"

\* C8: whenever reset() returns, whatever handlers ran between its
\* statements, all three outputs are HIGH and no channel timer is armed.
C8_ResetSafeUnderInterleaving ==
  h.ev = "reset_return" =>
    \A c \in Channels : out[c] = "HIGH" /\ timer[c] = NoTimer

\* C9: in the guarded sketches every channel moves only Idle -> Armed (by an
\* admitting startTest), Armed -> Asserted (by its assert callback, which
\* drives the output LOW and arms the timer with the deassert callback and
\* the channel's width), Asserted -> Idle (by its deassert callback, which
\* drives the output HIGH, sets the flag and ends the timer), or to Idle by
\* reset().
C9_ChannelStateMachine ==
  [][ (sketch \in Guarded) =>
        \A c \in Channels :
          /\ (h'.ev = AssertName(c)) =>
               ( /\ St(c) = "Armed"
                 /\ out'[c] = "LOW"
                 /\ timer'[c] =
                      [cb |-> EndName(c), period |-> trigger_width[c]] )
          /\ (h'.ev = EndName(c)) =>
               ( /\ St(c) = "Asserted"
                 /\ out'[c] = "HIGH"
                 /\ flag'[c] = 1
                 /\ timer'[c] = NoTimer )
          /\ (St(c)' # St(c)) =>
               ( \/ (St(c) = "Idle" /\ St(c)' = "Armed"
                       /\ h'.ev = "startTest_admit")
                 \/ (St(c) = "Armed" /\ St(c)' = "Asserted"
                       /\ h'.ev = AssertName(c))
                 \/ (St(c) = "Asserted" /\ St(c)' = "Idle"
                       /\ h'.ev = EndName(c))
                 \/ (St(c)' = "Idle" /\ h'.ev = "reset_step") )
    ]_vars

\* C10: in the guarded sketches, within one admitted cycle each channel's
\* assert callback runs at most once and its deassert callback at most once
\* and never before the assert, and a channel whose flag is 1 again without
\* a reset() has had exactly one of each.
C10_OnePulsePerCycle ==
  sketch \in Guarded =>
    \A c \in Channels :
      /\ h.asserts[c] <= 1
      /\ h.deasserts[c] <= h.asserts[c]
      /\ (h.ev \in IsrEvents /\ ~h.resetSeen /\ ~h.fresh /\ flag[c] = 1)
           => (h.asserts[c] = 1 /\ h.deasserts[c] = 1)

\* C11: once armed the three channel chains are independent: an assert or
\* deassert callback of one channel leaves the other two channels' output,
\* timer and flag unchanged (an assert callback changes no flag at all), and
\* what it does to its own channel is determined by that channel's own state
\* alone, so the order in which callbacks of different channels fire does
\* not change the state any channel ends in.
C11_ChannelsIndependent ==
  [][ \A c \in Channels :
        /\ (h'.ev = AssertName(c)) =>
             ( /\ \A d \in Channels \ {c} :
                    out'[d] = out[d] /\ timer'[d] = timer[d]
               /\ flag' = flag
               /\ out'[c] = "LOW"
               /\ timer'[c] =
                    IF trigger_width[c] > 0
                      THEN [cb |-> EndName(c), period |-> trigger_width[c]]
                      ELSE timer[c] )
        /\ (h'.ev = EndName(c)) =>
             ( /\ \A d \in Channels \ {c} :
                    out'[d] = out[d] /\ timer'[d] = timer[d]
                    /\ flag'[d] = flag[d]
               /\ out'[c] = "HIGH"
               /\ timer'[c] = NoTimer )
    ]_vars

\* dischargeTrigger has just driven its pin LOW while the charge pulse is
\* still active and the PCR channel is still armed: neither was disturbed
C11_Witness ==
  /\ h.ev = "dischargeTrigger"
  /\ St("discharge") = "Asserted" /\ out["discharge"] = "LOW"
  /\ St("charge") = "Asserted" /\ out["charge"] = "LOW"
  /\ St("pcr") = "Armed" /\ out["pcr"] = "HIGH"

\* channel c's deassert callback has not run since the last admitted cycle,
\* and reset() has not been called since
Stuck(c) ==
  sketch \in Guarded /\ h.cycle /\ h.deasserts[c] = 0 /\ ~h.resetSeen

\* C12: there is no timeout-based recovery.  In the guarded sketches, for as
\* long as a channel's deassert callback has not run after an admitted cycle
\* and reset() has not been called, that channel's flag is 0, and every
\* start edge is dropped without changing a flag, a timer or an output,
\* however many edges arrive and whatever the other two channels did.
C12_NoTimeoutRecovery ==
  /\ [](\A c \in Channels : Stuck(c) => flag[c] = 0)
  /\ [][ ( (\E c \in Channels : Stuck(c)) /\ h'.ev \in StartEvents )
         => ( h'.ev = "startTest_drop" /\ UNCHANGED <<flag, timer, out>> )
       ]_vars

\* the charge and discharge channels have completed their pulses, the PCR
\* deassert has still not run, and a start edge has just been dropped
C12_Witness ==
  /\ h.ev = "startTest_drop"
  /\ Stuck("pcr") /\ flag["pcr"] = 0 /\ St("pcr") # "Idle"
  /\ h.deasserts["charge"] = 1 /\ h.deasserts["discharge"] = 1
  /\ flag["charge"] = 1 /\ flag["discharge"] = 1
  /\ St("charge") = "Idle" /\ St("discharge") = "Idle"

\* the PRF argument of the last call lies in the gap (327.09, 372.09]
InGap(prf) == 32709 < prf /\ prf <= 37209

C14_GapKeepsPattern ==
  (h.ev = "outputPRIs" /\ InGap(h.arg.prf)) => pri = h.arg.pri

\* outputPRIs(372.09), the last value of the gap, has returned with the
\* pattern 101 that was there before
C14_Witness ==
  /\ h.ev = "outputPRIs"
  /\ h.arg.prf = 37209
  /\ h.arg.pri = <<1, 0, 1>>
  /\ pri = <<1, 0, 1>>

\* C15: the eight bands are contiguous and non-overlapping: for every
\* PRF > 0 exactly one of the eight conditions of outputPRIs holds.
C15_ExactlyOneBand ==
  (h.ev = "outputPRIs" /\ h.arg.prf > 0) =>
    Cardinality({i \in 1..8 : BandCond(i, h.arg.prf)}) = 1

\* C16: outputPRIs is idempotent: a call that repeats the call before it
\* leaves the pins as that call left them; and for a PRF in a defined band
\* the result is the same from every prior pattern.
C16_Idempotent ==
  /\ (h.ev = "outputPRIs" /\ h.arg.again) => pri = h.arg.pri
  /\ (h.ev = "outputPRIs" /\ ~InGap(h.arg.prf)) =>
       \A p \in Patterns : outputPRIs(h.arg.prf, p) = pri

\* outputPRIs(517.24) has been called twice in a row, first from the
\* pattern 010: the pins show 101 after the first and after the second call
C16_Witness ==
  /\ h.ev = "outputPRIs"
  /\ h.arg.again
  /\ h.arg.prf = 51724
  /\ pri = <<1, 0, 1>>

\* C17: after triggerTimings(PRF, mode) with mode Short (0) or Long (1),
\* charge_trigger_time = interval - (charge_lead + 3.0), PCR_trigger_time =
\* interval - (pcr_lead + 3.0) and discharge_trigger_time = interval -
\* (delta_base + 3.0), with leads (740.0, 105.0, 2.24) for Short and
\* (1200.0, 205.0, 4.48) for Long, where interval = 1e6/PRF of the PRF
\* passed in.
C17_PlanFromPassedPRF ==
  (h.ev = "triggerTimings" /\ h.arg.mode \in {0, 1}) =>
    LET interval == IntervalOf(h.arg.prf)
        lead == IF h.arg.mode = 0 THEN <<74000, 10500, 224>>
                                  ELSE <<120000, 20500, 448>>
    IN  /\ trigger_time["charge"] = interval - (lead[1] + 300)
        /\ trigger_time["pcr"] = interval - (lead[2] + 300)
        /\ trigger_time["discharge"] = interval - (lead[3] + 300)

\* C18: planning fails and produces no plan whenever interval <=
\* max(charge_lead, pcr_lead, delta_base) + K for the chosen mode, the
\* boundary included: a triggerTimings call in such a state leaves
\* charge_trigger_time, PCR_trigger_time and discharge_trigger_time as they
\* were.
C18_InfeasiblePlanRejected ==
  [][ ( /\ h'.ev = "triggerTimings"
        /\ h'.arg.mode \in {0, 1}
        /\ pulse_interval <=
             (IF h'.arg.mode = 0 THEN 74000 ELSE 120000) + 300 )
      => trigger_time' = trigger_time
    ]_vars

\* C19: in the guarded sketches, in every state in which a cycle can be
\* admitted (the start-edge interrupt is attached and the three flags are
\* set) the three offsets and the three widths are each >= 0 and strictly
\* less than the pulse interval; and in no sketch is a timer ever armed
\* with a negative offset.
C19_PlanWithinInterval ==
  /\ (sketch \in Guarded /\ attached /\ CanAdmit) =>
       \A c \in Channels :
         /\ 0 <= trigger_time[c] /\ trigger_time[c] < pulse_interval
         /\ 0 <= trigger_width[c] /\ trigger_width[c] < pulse_interval
  /\ \A c \in Channels :
       timer[c].cb = AssertName(c) => timer[c].period >= 0

\* a cycle has just been admitted with the offsets setup() computed for
\* 517.24 Hz, Short mode, all inside the interval of 1933.33 microseconds
C19_Witness ==
  /\ sketch \in Guarded
  /\ h.ev = "startTest_admit"
  /\ pulse_interval = 193333
  /\ \A c \in Channels :
       /\ timer[c] = [cb |-> AssertName(c), period |-> trigger_time[c]]
       /\ 0 < trigger_time[c] /\ trigger_time[c] < pulse_interval

\* C20: the discharge offset is derived from the charge offset: after
\* triggerTimings in either pulse mode, discharge_trigger_time =
\* charge_trigger_time + 720 + discharge_trigger_delta.
C20_DischargeFromCharge ==
  (h.ev = "triggerTimings" /\ h.arg.mode \in {0, 1}) =>
    trigger_time["discharge"] =
      trigger_time["charge"] + 72000 + discharge_trigger_delta

\* a positive PRF and a pulse mode that do not make a valid configuration:
\* a mode other than 0 and 1, a PRF in the classifier gap, or an interval
\* not above the largest lead of the mode plus the latency compensation
InvalidPair(prf, mode) ==
  /\ prf > 0
  /\ \/ mode \notin {0, 1}
     \/ InGap(prf)
     \/ IntervalOf(prf) <= (IF mode = 0 THEN 74000 ELSE 120000) + 300

\* the pattern and the plan are those in force when the pair was submitted
ConfigUntouched ==
  /\ pri = h.old.pri
  /\ trigger_time = h.old.time
  /\ discharge_trigger_delta = h.old.delta

\* C21: applying a configuration is all-or-nothing: when the statements
\* that apply a (PRF, pulse_mode) pair have run for an invalid pair, the PRI
\* pattern, charge_trigger_time, PCR_trigger_time, discharge_trigger_delta
\* and discharge_trigger_time are all as they were before.
C21_InvalidConfigChangesNothing ==
  ( /\ pc = "c_inputs" /\ h.ev = "triggerTimings"
    /\ InvalidPair(h.arg.prf, h.arg.mode) )
  => ConfigUntouched

\* C22: a non-positive PRF changes nothing: outputPRIs(PRF) with PRF <= 0
\* returns with the PRI pattern as it was, and triggerTimings then returns
\* with the plan as it was.
C22_NonPositivePRFChangesNothing ==
  /\ (h.ev = "outputPRIs" /\ h.arg.prf <= 0) => pri = h.old.pri
  /\ (h.ev = "triggerTimings" /\ h.arg.prf <= 0) => ConfigUntouched

\* the statements of setup() from the test inputs to the last assignment
\* of the plan
PlanPcs == {"s_cfg", "t_charge", "t_pcr", "t_delta", "t_discharge"}

\* C23: the plan is replaced atomically with respect to the interrupt
\* context: in the guarded sketches no startTest run admits a cycle between
\* the statements that compute the plan, and every admitted cycle arms the
\* three timers with offsets that all come from the one computation for the
\* current pulse_interval and pulse_mode.
C23_PlanReplacedAtomically ==
  [][ (sketch \in Guarded /\ h'.ev = "startTest_admit") =>
        /\ pc \notin PlanPcs
        /\ timer'["charge"].period =
             pulse_interval - ChargeLead(sketch, pulse_mode)
        /\ timer'["pcr"].period =
             pulse_interval - PCRLead(sketch, pulse_mode)
        /\ timer'["discharge"].period =
             pulse_interval - DeltaOf(sketch, pulse_mode)
    ]_vars

\* a start edge arrived between the assignments of charge_trigger_time and
\* PCR_trigger_time (interrupt attached, plan half computed) and was dropped
C23_Witness ==
  /\ sketch \in Guarded
  /\ pc = "t_pcr"
  /\ attached
  /\ h.ev = "startTest_drop"
  /\ trigger_time["charge"] > 0 /\ trigger_time["pcr"] = 0
  /\ \A c \in Channels : timer[c] = NoTimer

\* C24: in the sketch with the menu, the RF_Start falling-edge interrupt is
\* attached to startTest only while the menu is on the Test screen, and
\* when reset() returns the interrupt is detached and the menu is back at
\* Start.
C24_ListenerOnlyOnTest ==
  sketch = "v04" =>
    /\ attached => menu = "Test"
    /\ h.ev = "reset_return" => (~attached /\ menu = "Start")

ScreenIndex(m) == CHOOSE i \in 1..Len(Screens) : Screens[i] = m

\* C26: the menu is strictly linear over Options, Start, PRF, PulseMode,
\* Test: enter() moves to the next screen unless on the last, back() moves
\* to the previous screen unless on the first, and enter() followed by
\* back() from any screen but the last returns to the starting screen.
C26_MenuLinear ==
  [][ /\ (h'.ev = "menu_enter") =>
           /\ menu' = IF ScreenIndex(menu) < Len(Screens)
                        THEN Screens[ScreenIndex(menu) + 1] ELSE menu
           /\ ScreenIndex(menu) < Len(Screens) => MenuBackOf(menu') = menu
      /\ (h'.ev = "menu_back") =>
           menu' = IF ScreenIndex(menu) > 1
                     THEN Screens[ScreenIndex(menu) - 1] ELSE menu
    ]_vars

\* C28: for all 32-bit unsigned time1 (earlier) and time2 (later, possibly
\* after one rollover of the counter), timeDifference(time1, time2) is
\* (time2 - time1) mod 2^32.
C28_TimeDifferenceModular ==
  h.ev = "timeDifference" => h.time_difference = Sub32(h.time2, h.time1)

\* C29: in the v0.4 sketch and in the bench sketch with widths 20, whenever
\* a cycle can be admitted (interrupt attached, all three flags set) the
\* three offsets and the three pulse widths are strictly positive.
C29_ValuesSetBeforeFirstAdmit ==
  (sketch \in Guarded /\ attached /\ CanAdmit) =>
    \A c \in Channels : trigger_time[c] > 0 /\ trigger_width[c] > 0

\* C30: in the sketches that attach the RF_Start interrupt before computing
\* the timings, startTest() admits no cycle while setup() is between the
\* attach and the last statement that computes an offset.
C30_NoAdmitBeforeTimingsComputed ==
  [][ (sketch # "v04" /\ h'.ev = "startTest_admit") => pc \notin PlanPcs
    ]_vars

\* C27: every interrupt and timer callback terminates after a bounded
\* number of steps from every state: a running callback has executed no
\* more statements than its body holds, and each statement is a flag test
\* or write, a pin write or a timer begin/end call (no loop, no wait).
C27_CallbacksBounded ==
  pc.fn # "none" =>
    /\ h.steps <= Len(Body(pc.fn))
    /\ pc.at = h.steps + 1 \/ pc.at = Len(Body(pc.fn)) + 1
    /\ pc.at <= Len(Body(pc.fn)) => Body(pc.fn)[pc.at].op \in AllowedOps

C27_Witness ==
  /\ pc.fn = "startTest" /\ pc.at = Len(Body("startTest")) + 1
  /\ h.steps = Len(Body("startTest"))
  /\ \A c \in Channels : timer[c].cb = AssertName(c)

AssertOrder == <<"charge", "pcr", "discharge">>

\* C31: within one admitted cycle with a feasible plan (all offsets
\* positive) in Short or Long mode and timers firing at their programmed
\* delays, charge_trigger_time < PCR_trigger_time < discharge_trigger_time
\* and the channels assert for the first time in the order charge, PCR,
\* discharge.
C31_AssertOrder ==
  (pulse_mode \in PlanModes /\ \A c \in Channels : trigger_time[c] > 0) =>
    /\ trigger_time["charge"] < trigger_time["pcr"]
    /\ trigger_time["pcr"] < trigger_time["discharge"]
    /\ \A i \in 1..Len(h.order) : h.order[i] = AssertOrder[i]

C31_Witness ==
  /\ pulse_mode = 1 /\ \A c \in Channels : trigger_time[c] > 0
  /\ h.ev = "dischargeTrigger" /\ h.order = AssertOrder

\* C32: in the guarded sketches, in every state after setup() with no
\* callback mid-execution, a channel whose flag is 1 has its output HIGH and
\* its timer not armed, after any sequence of start edges, timer firings and
\* reset() calls.
C32_FlagOneMeansIdle ==
  (sketch \in Guarded /\ pc \notin SetupPcs) =>
    \A c \in Channels :
      flag[c] = 1 => (out[c] = "HIGH" /\ timer[c] = NoTimer)

\* C25: outputPRIs and triggerTimings leave the three pulse widths
\* unchanged for every input, and triggerTimings also leaves the PRI
\* pattern and the three guard flags unchanged.
C25_WidthsNotPlanned ==
  [][ /\ (h'.ev \in {"outputPRIs", "triggerTimings"})
           => trigger_width' = trigger_width
      /\ (h'.ev = "triggerTimings") => (pri' = pri /\ flag' = flag)
    ]_vars

\* triggerTimings has replaced the plan for 517.24 Hz; the pattern 101
\* written by outputPRIs, the flags and the widths are as before the call
C25_Witness ==
  /\ h.ev = "triggerTimings"
  /\ h.arg.prf = 51724 /\ h.arg.mode = 1
  /\ trigger_time # h.old.time
  /\ trigger_time["charge"] = 193333 - 120300
  /\ pri = <<1, 0, 1>>
  /\ flag = [c \in Channels |-> 1]
  /\ trigger_width = [c \in Channels |-> WidthOf(sketch)]

----------------------------------------------------------------------------
(* Supporting facts: where the statements above that the code violates do  *)
(* hold.                                                                   *)

PositiveWidths == \A c \in Channels : trigger_width[c] > 0

\* The no-overlap statement of C4 holds in the guarded sketches.
NoOverlapWhenGuarded ==
  [][ (h'.ev \in StartEvents /\ sketch \in Guarded)
      => \A c \in Channels : timer[c].cb # "none" => timer'[c] = timer[c]
    ]_vars

\* The return to idle of C5 holds in the guarded sketch whose widths are
\* positive (checked under FairSpec).
IdleAgainWhenWidthsPositive ==
  (sketch \in Guarded /\ PositiveWidths /\ h.ev = "startTest_admit")
    ~> (AllIdle \/ h.resetSeen)

\* The one-pulse-per-cycle statement of C10 holds in the guarded sketch whose
\* widths are positive.
OnePulseWhenWidthsPositive ==
  (sketch \in Guarded /\ PositiveWidths) =>
    \A c \in Channels :
      /\ h.asserts[c] <= 1
      /\ h.deasserts[c] <= h.asserts[c]
      /\ (h.ev \in IsrEvents /\ ~h.resetSeen /\ ~h.fresh /\ flag[c] = 1)
           => (h.asserts[c] = 1 /\ h.deasserts[c] = 1)

\* With positive widths an assert callback always hands the timer over to
\* the deassert callback (the step C9 requires).
AssertArmsDeassertWhenWidthsPositive ==
  [][ (sketch \in Guarded /\ PositiveWidths) =>
        \A c \in Channels :
          (h'.ev = AssertName(c)) =>
            ( /\ St(c) = "Armed"
              /\ timer'[c] = [cb |-> EndName(c), period |-> trigger_width[c]] )
    ]_vars

\* The formulas of C17 hold when triggerTimings is passed the PRF from which
\* pulse_interval was last computed, as in setup(): for 517.24 Hz Short the
\* offsets are 1190.33, 1825.33 and 1928.09 microseconds.
PlanFormulasWhenIntervalCurrent ==
  (h.ev = "triggerTimings" /\ h.arg.mode \in {0, 1} /\ h.arg.prf = PRF) =>
    LET interval == IntervalOf(h.arg.prf)
        lead == IF h.arg.mode = 0 THEN <<74000, 10500, 224>>
                                  ELSE <<120000, 20500, 448>>
    IN  /\ trigger_time["charge"] = interval - (lead[1] + 300)
        /\ trigger_time["pcr"] = interval - (lead[2] + 300)
        /\ trigger_time["discharge"] = interval - (lead[3] + 300)
        /\ (h.arg.prf = 51724 /\ h.arg.mode = 0) =>
             trigger_time =
               [charge |-> 119033, discharge |-> 192809, pcr |-> 182533]

\* What the code computes instead of the relation of C20: the discharge
\* assert follows the charge assert by charge_lead - delta_base (737.76
\* microseconds in Short mode, 1195.52 in Long mode).
DischargeAfterCharge ==
  (h.ev = "triggerTimings" /\ h.arg.mode \in {0, 1}) =>
    trigger_time["discharge"] - trigger_time["charge"] =
      (IF h.arg.mode = 0 THEN 74000 - 224 ELSE 120000 - 448)

\* The statements of setup() that compute the plan and call outputPRIs
\* leave the widths each sketch declares (0, 20 and 1 microseconds) as
\* they are.
WidthsKeptBySetup ==
  [][ (h'.ev = "setup") => trigger_width' = trigger_width ]_vars

\* The half of C24 that the code keeps: when reset() returns in v0.4 the
\* interrupt is detached and the menu is at Start; and loop() attaches the
\* interrupt only on the Test screen.
ResetDetachesAndRewindsMenu ==
  /\ [](sketch = "v04" /\ h.ev = "reset_return" =>
          (~attached /\ menu = "Start"))
  /\ [][ (h'.ev = "loop_attach") => menu = "Test" ]_vars

\* The part of C26 that the code keeps: enter() always moves to the next
\* screen (or stays on Test), and back() moves to the previous screen from
\* Start, PRF and PulseMode.
MenuLinearExceptBackOnTest ==
  [][ /\ (h'.ev = "menu_enter") =>
           menu' = IF ScreenIndex(menu) < Len(Screens)
                     THEN Screens[ScreenIndex(menu) + 1] ELSE menu
      /\ (h'.ev = "menu_back" /\ menu # "Test") =>
           menu' = IF ScreenIndex(menu) > 1
                     THEN Screens[ScreenIndex(menu) - 1] ELSE menu
    ]_vars

\* What timeDifference() computes: the modular difference when time1 is
\* not above time2, and 33 more than the modular difference when it is.
TimeDifferenceOffByLiteral ==
  h.ev = "timeDifference" =>
    h.time_difference =
      IF Gt32(h.time1, h.time2)
        THEN Add32(Sub32(h.time2, h.time1), U32(33))
        ELSE Sub32(h.time2, h.time1)

\* C29 for the bench sketch with widths 20 alone, and the offsets alone
\* for v0.4.
ValuesSetBeforeFirstAdmitBench20 ==
  (attached /\ CanAdmit) =>
    /\ sketch \in Guarded => \A c \in Channels : trigger_time[c] > 0
    /\ sketch = "bench20" => \A c \in Channels : trigger_width[c] > 0

\* C30 for the bench sketch with the flag guard alone.
NoAdmitBeforeTimingsComputedBench20 ==
  [][ (sketch = "bench20" /\ h'.ev = "startTest_admit") => pc \notin PlanPcs
    ]_vars

\* Every callback that is entered returns.
CallbacksReturn == (pc.fn # "none") ~> (pc.fn = "none")

\* C32 where setup() starts with reset(): the bench sketch with widths 20.
\* And in v0.4 a flag that is 1 still means the channel's timer is not armed.
FlagOneMeansIdleBench20 ==
  (sketch \in Guarded /\ pc \notin SetupPcs) =>
    \A c \in Channels :
      flag[c] = 1 =>
        /\ timer[c] = NoTimer
        /\ sketch = "bench20" => out[c] = "HIGH"

====
